---- MODULE Spec2Model ----
(***************************************************************************)
(* Model of the search-filter syntax engine: the syntax parts              *)
(* (src/src/model/filters/syntax-parts.ts) and the filter classes that     *)
(* compose them (src/unnamed/part_000).                                    *)
(*                                                                         *)
(* Strings are sequences of character codes (String.charCodeAt).  Code     *)
(* indices are 0-based as in the source; value[i] of the source is         *)
(* value[i + 1] here.                                                      *)
(***************************************************************************)
EXTENDS Integers, Sequences, FiniteSets, TLC

(***************************************************************************)
(* Bounds of the model.                                                    *)
(***************************************************************************)
\* Characters typed one by one after the accepted suggestions.
MaxTyped == 1
\* Characters deleted from the end of the accepted text.
MaxCut == 1
\* Characters appended to an input when a claim speaks of its extensions.
MaxAppend == 2

(***************************************************************************)
(* Character helpers.                                                      *)
(***************************************************************************)
\* String.prototype.toLowerCase on one (ASCII) character code.
ToLowerCase(c) == IF c >= 65 /\ c <= 90 THEN c + 32 ELSE c

\* String.prototype.toUpperCase on one (ASCII) character code.
ToUpperCase(c) == IF c >= 97 /\ c <= 122 THEN c - 32 ELSE c

LowerStr(s) == [i \in 1..Len(s) |-> ToLowerCase(s[i])]

UpperStr(s) == [i \in 1..Len(s) |-> ToUpperCase(s[i])]

\* value.slice(from, to) / value.substring(from, to), 0-based, to exclusive,
\* both clamped to the length of the string.
Slice(s, from, to) ==
    LET t == IF to > Len(s) THEN Len(s) ELSE to
    IN  IF from >= t THEN << >> ELSE SubSeq(s, from + 1, t)

\* String.prototype.startsWith
StartsWith(s, prefix) ==
    /\ Len(prefix) <= Len(s)
    /\ \A i \in 1..Len(prefix) : s[i] = prefix[i]

\* charRange(charA, charB) as a pair of character codes
charRange(a, b) == << a, b >>

matchesRange(charCode, range) == charCode >= range[1] /\ charCode <= range[2]

\* const NUMBER_CHARS = [48, 57]
NUMBER_CHARS == << 48, 57 >>

\* _.some(allowedCharRanges, r => matchesRange(c, r))
Allowed(c, allowedCharRanges) ==
    \E k \in 1..Len(allowedCharRanges) : matchesRange(c, allowedCharRanges[k])

(***************************************************************************)
(* Match results.  `undefined` is a record of its own so that it can be    *)
(* compared with a SyntaxMatch.                                            *)
(***************************************************************************)
Undefined == [type |-> "undefined", consumed |-> 0]

SyntaxMatch(t, n) == [type |-> t, consumed |-> n]

\* A string-or-undefined result (getStringAt)
NoString == [defined |-> FALSE, str |-> << >>]

SomeString(s) == [defined |-> TRUE, str |-> s]

(***************************************************************************)
(* getStringAt / getNumberAt                                               *)
(***************************************************************************)
RECURSIVE StringAtLoop(_, _, _)
\* for (i = index; i < value.length; i++) { if (!allowed) break; }
StringAtLoop(value, i, allowedCharRanges) ==
    IF i < Len(value) /\ Allowed(value[i + 1], allowedCharRanges)
    THEN StringAtLoop(value, i + 1, allowedCharRanges)
    ELSE i

\* The three outcomes of getStringAt once its loop has stopped at i
StringAtResult(value, index, i) ==
    IF i # index THEN SomeString(Slice(value, index, i))
    ELSE IF i = Len(value) THEN SomeString(<< >>)
    ELSE NoString

getStringAt(value, index, allowedCharRanges) ==
    StringAtResult(value, index, StringAtLoop(value, index, allowedCharRanges))

getNumberAt(value, index) == getStringAt(value, index, << NUMBER_CHARS >>)

(***************************************************************************)
(* The syntax parts, as records.                                           *)
(***************************************************************************)
FixedStringSyntax(matcher) == [kind |-> "FixedString", matcher |-> matcher]

\* new StringSyntax(templateText, { allowEmpty, allowedChars, suggestionGenerator })
StringSyntax(templateText, allowEmpty, allowedChars, hasGenerator) ==
    [kind |-> "String", templateText |-> templateText, allowEmpty |-> allowEmpty,
     allowedCharRanges |-> IF allowedChars = << >> THEN << << 0, 255 >> >> ELSE allowedChars,
     hasGenerator |-> hasGenerator]

\* new NumberSyntax(name): wraps a StringSyntax over NUMBER_CHARS, no generator
NumberSyntax(name) ==
    [kind |-> "Number",
     stringSyntax |-> StringSyntax(name, FALSE, << NUMBER_CHARS >>, FALSE)]

FixedLengthNumberSyntax(requiredLength, hasGenerator) ==
    [kind |-> "FixedLengthNumber", requiredLength |-> requiredLength,
     hasGenerator |-> hasGenerator]

StringOptionsSyntax(options) ==
    [kind |-> "StringOptions",
     optionMatchers |-> [k \in 1..Len(options) |-> FixedStringSyntax(options[k])]]

(***************************************************************************)
(* FixedStringSyntax.match                                                 *)
(***************************************************************************)
RECURSIVE FixedStringLoop(_, _, _, _, _)
\* Compare char by char over the common size; -1 stands for the early
\* `return undefined` on a mismatch, otherwise the final i.
FixedStringLoop(matcher, expected, value, index, i) ==
    IF (i - index) < Len(matcher) /\ i < Len(value)
    THEN IF expected[i - index + 1] # ToLowerCase(value[i + 1])
         THEN -1
         ELSE FixedStringLoop(matcher, expected, value, index, i + 1)
    ELSE i

\* FixedStringResult, had the length of the keyword been reported as consumed
FixedStringResult_WholeKeyword(matcher, index, i) ==
    IF i = -1 THEN Undefined
    ELSE SyntaxMatch(IF i - index = Len(matcher) THEN "full" ELSE "partial", Len(matcher))

\* What FixedStringSyntax.match returns once its loop has ended with i
FixedStringResult(matcher, index, i) ==
    IF i = -1 THEN Undefined
    ELSE SyntaxMatch(IF i - index = Len(matcher) THEN "full" ELSE "partial", i - index)

\* FixedStringMatch, had the keyword not been lowercased before comparing
FixedStringMatch_KeywordAsConfigured(part, value, index) ==
    FixedStringResult(part.matcher, index,
        FixedStringLoop(part.matcher, part.matcher, value, index, index))

FixedStringMatch(part, value, index) ==
    FixedStringResult(part.matcher, index,
        FixedStringLoop(part.matcher, LowerStr(part.matcher), value, index, index))

(***************************************************************************)
(* StringSyntax.match                                                      *)
(***************************************************************************)
\* StringResult, had allowEmpty been left out of the test for a full match
StringResult_IgnoringAllowEmpty(part, matchingString) ==
    IF ~matchingString.defined THEN Undefined
    ELSE SyntaxMatch(IF Len(matchingString.str) > 0 THEN "full" ELSE "partial",
                     Len(matchingString.str))

\* StringResult, had a full match needed both a character and allowEmpty
StringResult_AndAllowEmpty(part, matchingString) ==
    IF ~matchingString.defined THEN Undefined
    ELSE SyntaxMatch(IF Len(matchingString.str) > 0 /\ part.allowEmpty
                     THEN "full" ELSE "partial",
                     Len(matchingString.str))

\* What StringSyntax.match returns for the matchingString found
StringResult(part, matchingString) ==
    IF ~matchingString.defined THEN Undefined
    ELSE SyntaxMatch(IF Len(matchingString.str) > 0 \/ part.allowEmpty
                     THEN "full" ELSE "partial",
                     Len(matchingString.str))

StringMatch(part, value, index) ==
    StringResult(part, getStringAt(value, index, part.allowedCharRanges))

(***************************************************************************)
(* NumberSyntax.match                                                      *)
(***************************************************************************)
NumberMatch(part, value, index) == StringMatch(part.stringSyntax, value, index)

(***************************************************************************)
(* FixedLengthNumberSyntax.match                                           *)
(***************************************************************************)
\* FixedLengthNumberResult, had every length but the required one been
\* rejected
FixedLengthNumberResult_ExactOnly(part, matchingNumber) ==
    IF ~matchingNumber.defined THEN Undefined
    ELSE IF Len(matchingNumber.str) = part.requiredLength
         THEN SyntaxMatch("full", Len(matchingNumber.str))
    ELSE Undefined

\* What FixedLengthNumberSyntax.match returns for the matchingNumber found
FixedLengthNumberResult(part, matchingNumber) ==
    IF ~matchingNumber.defined THEN Undefined
    ELSE IF Len(matchingNumber.str) = part.requiredLength
         THEN SyntaxMatch("full", Len(matchingNumber.str))
    ELSE IF Len(matchingNumber.str) < part.requiredLength
         THEN SyntaxMatch("partial", Len(matchingNumber.str))
    ELSE Undefined \* Too many numbers - not a match

FixedLengthNumberMatch(part, value, index) ==
    FixedLengthNumberResult(part, getNumberAt(value, index))

(***************************************************************************)
(* StringOptionsSyntax.match                                               *)
(***************************************************************************)
\* _.filter(seq, pred) for a predicate given as the set of kept positions
RECURSIVE FilterSeq(_, _, _)
FilterSeq(seq, keep, k) ==
    IF k > Len(seq) THEN << >>
    ELSE (IF k \in keep THEN << seq[k] >> ELSE << >>) \o FilterSeq(seq, keep, k + 1)

RECURSIVE MaxByConsumed(_, _, _)
\* _.maxBy(matches, m => m.consumed): the first of the greatest, undefined
\* for an empty array
MaxByConsumed(matches, k, best) ==
    IF k > Len(matches) THEN best
    ELSE IF best = Undefined \/ matches[k].consumed > best.consumed
         THEN MaxByConsumed(matches, k + 1, matches[k])
         ELSE MaxByConsumed(matches, k + 1, best)

\* this.optionMatchers.map(m => m.match(value, index))
OptionMatches(part, value, index) ==
    [k \in 1..Len(part.optionMatchers) |->
        FixedStringMatch(part.optionMatchers[k], value, index)]

\* .filter(m => !!m)
DefinedMatches(all) == FilterSeq(all, {k \in 1..Len(all) : all[k] # Undefined}, 1)

\* _.partition(matches, { type: 'full' })
FullMatches(matches) ==
    FilterSeq(matches, {k \in 1..Len(matches) : matches[k].type = "full"}, 1)

PartialMatches(matches) ==
    FilterSeq(matches, {k \in 1..Len(matches) : matches[k].type # "full"}, 1)

\* fullMatches.length ? fullMatches : partialMatches
BestMatches(fullMatches, partialMatches) ==
    IF Len(fullMatches) > 0 THEN fullMatches ELSE partialMatches

\* LongestBest, had the longest been taken among full and partial matches alike
LongestBest_Unpartitioned(matches) == MaxByConsumed(matches, 1, Undefined)

\* The longest best matching option among the matches that are defined
LongestBest(matches) ==
    MaxByConsumed(BestMatches(FullMatches(matches), PartialMatches(matches)), 1, Undefined)

StringOptionsMatch(part, value, index) ==
    LongestBest(DefinedMatches(OptionMatches(part, value, index)))

(***************************************************************************)
(* SyntaxPart.match, dispatched on the kind of the part                    *)
(***************************************************************************)
Match(part, value, index) ==
    CASE part.kind = "FixedString" -> FixedStringMatch(part, value, index)
      [] part.kind = "String" -> StringMatch(part, value, index)
      [] part.kind = "Number" -> NumberMatch(part, value, index)
      [] part.kind = "FixedLengthNumber" -> FixedLengthNumberMatch(part, value, index)
      [] part.kind = "StringOptions" -> StringOptionsMatch(part, value, index)

(***************************************************************************)
(* parse.  A call either throws or returns a value:                        *)
(* [threw |-> TRUE] or [threw |-> FALSE, value |-> v].                     *)
(***************************************************************************)
Threw == [threw |-> TRUE, value |-> << >>]

Returned(v) == [threw |-> FALSE, value |-> v]

\* ParsedValueOf, had the matched text been cut from index to the end of
\* the input
ParsedValueOf_SliceToEnd(match, value, index) ==
    IF match = Undefined \/ match.type # "full"
    THEN Threw
    ELSE Returned(Slice(value, index, Len(value)))

\* getParsedValue once part.match(value, index) has returned match
ParsedValueOf(match, value, index) ==
    IF match = Undefined \/ match.type # "full"
    THEN Threw
    ELSE Returned(Slice(value, index, index + match.consumed))

getParsedValue(part, value, index) ==
    ParsedValueOf(Match(part, value, index), value, index)

RECURSIVE ParseIntLoop(_, _, _)
ParseIntLoop(str, k, acc) ==
    IF k <= Len(str) /\ matchesRange(str[k], NUMBER_CHARS)
    THEN ParseIntLoop(str, k + 1, acc * 10 + (str[k] - 48))
    ELSE acc

\* parseInt(str, 10) of a string without sign or spaces: the value of the
\* leading run of digits, NaN (here -1) when there is none
ParseInt(str) ==
    IF Len(str) > 0 /\ matchesRange(str[1], NUMBER_CHARS)
    THEN ParseIntLoop(str, 1, 0)
    ELSE -1

\* FixedStringParse, had the matched text been returned as typed
FixedStringParse_AsTyped(part, value, index) == getParsedValue(part, value, index)

FixedStringParse(part, value, index) ==
    \* Return the expected string (ignoring input case) not the matched text
    IF getParsedValue(part, value, index).threw THEN Threw ELSE Returned(part.matcher)

StringParse(part, value, index) == getParsedValue(part, value, index)

\* return parseInt(valueAsString, 10), reached only if nothing was thrown
ParsedInt(valueAsString) ==
    IF valueAsString.threw THEN Threw ELSE Returned(ParseInt(valueAsString.value))

NumberParse(part, value, index) ==
    ParsedInt(StringParse(part.stringSyntax, value, index))

FixedLengthNumberParse(part, value, index) ==
    ParsedInt(getParsedValue(part, value, index))

StringOptionsParse(part, value, index) == getParsedValue(part, value, index)

Parse(part, value, index) ==
    CASE part.kind = "FixedString" -> FixedStringParse(part, value, index)
      [] part.kind = "String" -> StringParse(part, value, index)
      [] part.kind = "Number" -> NumberParse(part, value, index)
      [] part.kind = "FixedLengthNumber" -> FixedLengthNumberParse(part, value, index)
      [] part.kind = "StringOptions" -> StringOptionsParse(part, value, index)

(***************************************************************************)
(* getSuggestions.  A context is [given |-> BOOLEAN, candidates |-> list]: *)
(* whether the caller passed a (truthy) context, and what the injected     *)
(* suggestionGenerator returns for it.                                     *)
(***************************************************************************)
Suggestion(showAs, v) == [showAs |-> showAs, value |-> v, template |-> FALSE]

TemplateSuggestion(showAs) == [showAs |-> showAs, value |-> << >>, template |-> TRUE]

\* `{${text}}`
Braced(text) == << 123 >> \o text \o << 125 >>

\* "-digit number"
DigitNumberText == << 45, 100, 105, 103, 105, 116, 32, 110, 117, 109, 98, 101, 114 >>

\* Number.prototype.toString for a non-negative integer
RECURSIVE NumberToString(_)
NumberToString(n) ==
    IF n < 10 THEN << 48 + n >> ELSE NumberToString(n \div 10) \o << 48 + (n % 10) >>

\* _.repeat("0", n)
RepeatZero(n) == [k \in 1..(IF n > 0 THEN n ELSE 0) |-> 48]

FixedStringGetSuggestions(part, value, index, context) ==
    << Suggestion(part.matcher, part.matcher) >>

\* JS truthiness of a string | undefined
Truthy(s) == s.defined /\ Len(s.str) > 0

\* context && this.options.suggestionGenerator ? generator(value, index, context) : []
Generated(part, context) ==
    IF context.given /\ part.hasGenerator THEN context.candidates ELSE << >>

\* .map(s => ({ showAs: s, value: s }))
AsSuggestions(strings) == [k \in 1..Len(strings) |-> Suggestion(strings[k], strings[k])]

\* StringSyntax: .filter(suggestion => fits the existing value and every
\* char matches at least one of the given char ranges)
StringCandidates(part, matchingString, generated) ==
    FilterSeq(generated,
        {k \in 1..Len(generated) :
            /\ (~Truthy(matchingString) \/ StartsWith(generated[k], matchingString.str))
            /\ \A j \in 1..Len(generated[k]) :
                  Allowed(generated[k][j], part.allowedCharRanges)}, 1)

StringSuggestionList(part, matchingString, suggestions) ==
    IF ~Truthy(matchingString)
    THEN << TemplateSuggestion(Braced(part.templateText)) >> \o suggestions
    ELSE << Suggestion(matchingString.str, matchingString.str) >> \o suggestions

StringSuggestionsFor(part, matchingString, context) ==
    StringSuggestionList(part, matchingString,
        AsSuggestions(StringCandidates(part, matchingString, Generated(part, context))))

StringGetSuggestions(part, value, index, context) ==
    StringSuggestionsFor(part, getStringAt(value, index, part.allowedCharRanges), context)

NumberGetSuggestions(part, value, index, context) ==
    StringGetSuggestions(part.stringSyntax, value, index,
                         [given |-> FALSE, candidates |-> << >>])

\* FixedLengthNumberSyntax: .filter(suggestion => fits the existing value,
\* has the right length and is all digits)
NumberCandidates(part, matchingNumber, generated) ==
    FilterSeq(generated,
        {k \in 1..Len(generated) :
            /\ (~Truthy(matchingNumber) \/ StartsWith(generated[k], matchingNumber.str))
            /\ Len(generated[k]) = part.requiredLength
            /\ \A j \in 1..Len(generated[k]) :
                  matchesRange(generated[k][j], NUMBER_CHARS)}, 1)

\* matchingNumber + _.repeat("0", this.requiredLength - matchingNumber.length)
ExtendedNumber(part, str) == str \o RepeatZero(part.requiredLength - Len(str))

\* NumberSuggestionList, had the number extended with 0s been added to the
\* generated suggestions
NumberSuggestionList_ExtendedToo(part, matchingNumber, suggestions) ==
    IF ~Truthy(matchingNumber)
    THEN << TemplateSuggestion(
               Braced(NumberToString(part.requiredLength) \o DigitNumberText)) >>
         \o suggestions
    ELSE suggestions \o << Suggestion(ExtendedNumber(part, matchingNumber.str),
                                      ExtendedNumber(part, matchingNumber.str)) >>

NumberSuggestionList(part, matchingNumber, suggestions) ==
    IF ~Truthy(matchingNumber)
    THEN << TemplateSuggestion(
               Braced(NumberToString(part.requiredLength) \o DigitNumberText)) >>
         \o suggestions
    ELSE IF Len(suggestions) > 0 THEN suggestions
    ELSE << Suggestion(ExtendedNumber(part, matchingNumber.str),
                       ExtendedNumber(part, matchingNumber.str)) >>

NumberSuggestionsFor(part, matchingNumber, context) ==
    NumberSuggestionList(part, matchingNumber,
        AsSuggestions(NumberCandidates(part, matchingNumber, Generated(part, context))))

FixedLengthNumberGetSuggestions(part, value, index, context) ==
    NumberSuggestionsFor(part, getNumberAt(value, index), context)

\* this.optionMatchers.map(m => ({ matcher: m, match: m.match(value, index) }))
OptionMatchers(part, value, index) ==
    [k \in 1..Len(part.optionMatchers) |->
        [matcher |-> part.optionMatchers[k],
         match |-> FixedStringMatch(part.optionMatchers[k], value, index)]]

\* .filter(({ match }) => !!match && (match.consumed + index === value.length))
LiveMatchers(all, value, index) ==
    FilterSeq(all, {k \in 1..Len(all) :
                        /\ all[k].match # Undefined
                        /\ all[k].match.consumed + index = Len(value)}, 1)

\* ExactOrAll, had an exact match not pre-empted the other live options
ExactOrAll_All(matchers) == matchers

\* If there's an exact match, suggest only that
ExactOrAll(matchers) ==
    IF \E k \in 1..Len(matchers) : matchers[k].match.type = "full"
    THEN FilterSeq(matchers, {k \in 1..Len(matchers) : matchers[k].match.type = "full"}, 1)
    ELSE matchers

\* _.flatMap(matchers, ({ matcher }) => matcher.getSuggestions(value, index))
OptionSuggestions(matchers, value, index, context) ==
    [k \in 1..Len(matchers) |->
        FixedStringGetSuggestions(matchers[k].matcher, value, index, context)[1]]

StringOptionsGetSuggestions(part, value, index, context) ==
    OptionSuggestions(ExactOrAll(LiveMatchers(OptionMatchers(part, value, index), value, index)),
                      value, index, context)

GetSuggestions(part, value, index, context) ==
    CASE part.kind = "FixedString" -> FixedStringGetSuggestions(part, value, index, context)
      [] part.kind = "String" -> StringGetSuggestions(part, value, index, context)
      [] part.kind = "Number" -> NumberGetSuggestions(part, value, index, context)
      [] part.kind = "FixedLengthNumber" ->
            FixedLengthNumberGetSuggestions(part, value, index, context)
      [] part.kind = "StringOptions" ->
            StringOptionsGetSuggestions(part, value, index, context)

(***************************************************************************)
(* The filter classes and their filterSyntax.                              *)
(***************************************************************************)
\* keyof typeof numberOperations, in the order the filters list them:
\* "=", "!=", ">=", ">", "<=", "<"
NumberOperations ==
    << << 61 >>, << 33, 61 >>, << 62, 61 >>, << 62 >>, << 60, 61 >>, << 60 >> >>

\* keyof typeof stringOperations: "=", "!=", "*=", "^=", "$="
StringOperations ==
    << << 61 >>, << 33, 61 >>, << 42, 61 >>, << 94, 61 >>, << 36, 61 >> >>

\* charRange('a', 'z'), charRange('A', 'Z')
LetterRanges == << charRange(97, 122), charRange(65, 90) >>

\* letters, charRange("0", "9"), charRange("-"), charRange(".")
HostnameRanges == LetterRanges \o << charRange(48, 57), charRange(45, 45), charRange(46, 46) >>

StatusFilterSyntax ==
    << FixedStringSyntax(<< 115, 116, 97, 116, 117, 115 >>),            \* "status"
       StringOptionsSyntax(NumberOperations),
       FixedLengthNumberSyntax(3, TRUE) >>

CompletedFilterSyntax ==
    << FixedStringSyntax(<< 99, 111, 109, 112, 108, 101, 116, 101, 100 >>) >>  \* "completed"

PendingFilterSyntax ==
    << FixedStringSyntax(<< 112, 101, 110, 100, 105, 110, 103 >>) >>    \* "pending"

AbortedFilterSyntax ==
    << FixedStringSyntax(<< 97, 98, 111, 114, 116, 101, 100 >>) >>      \* "aborted"

ErrorFilterSyntax ==
    << FixedStringSyntax(<< 101, 114, 114, 111, 114, 101, 100 >>) >>    \* "errored"

MethodFilterSyntax ==
    << FixedStringSyntax(<< 109, 101, 116, 104, 111, 100 >>),           \* "method"
       FixedStringSyntax(<< 61 >>),                                     \* "="
       StringSyntax(<< 109, 101, 116, 104, 111, 100 >>, FALSE, LetterRanges, TRUE) >>

HttpVersionFilterSyntax ==
    << FixedStringSyntax(<< 104, 116, 116, 112, 86, 101, 114, 115, 105, 111, 110 >>),
                                                                        \* "httpVersion"
       FixedStringSyntax(<< 61 >>),
       StringOptionsSyntax(<< << 49 >>, << 50 >> >>) >>                 \* "1", "2"

ProtocolFilterSyntax ==
    << FixedStringSyntax(<< 112, 114, 111, 116, 111, 99, 111, 108 >>),  \* "protocol"
       FixedStringSyntax(<< 61 >>),
       StringOptionsSyntax(<< << 104, 116, 116, 112 >>,                 \* "http"
                              << 104, 116, 116, 112, 115 >> >>) >>      \* "https"

HostnameFilterSyntax ==
    << FixedStringSyntax(<< 104, 111, 115, 116, 110, 97, 109, 101 >>),  \* "hostname"
       StringOptionsSyntax(StringOperations),
       StringSyntax(<< 104, 111, 115, 116, 110, 97, 109, 101 >>, FALSE, HostnameRanges, TRUE) >>

PortFilterSyntax ==
    << FixedStringSyntax(<< 112, 111, 114, 116 >>),                     \* "port"
       StringOptionsSyntax(NumberOperations),
       NumberSyntax(<< 112, 111, 114, 116 >>) >>

PathFilterSyntax ==
    << FixedStringSyntax(<< 112, 97, 116, 104 >>),                      \* "path"
       StringOptionsSyntax(StringOperations),
       StringSyntax(<< 112, 97, 116, 104 >>, FALSE, << >>, TRUE) >>

QueryFilterSyntax ==
    << FixedStringSyntax(<< 113, 117, 101, 114, 121 >>),                \* "query"
       StringOptionsSyntax(StringOperations),
       StringSyntax(<< 113, 117, 101, 114, 121 >>, TRUE, << >>, TRUE) >>

SelectableSearchFilterClasses ==
    << "MethodFilter", "HostnameFilter", "PathFilter", "QueryFilter", "StatusFilter",
       "CompletedFilter", "PendingFilter", "AbortedFilter", "ErrorFilter",
       "PortFilter", "ProtocolFilter", "HttpVersionFilter" >>

\* FilterClass.filterSyntax
filterSyntax(filterClass) ==
    CASE filterClass = "MethodFilter" -> MethodFilterSyntax
      [] filterClass = "HostnameFilter" -> HostnameFilterSyntax
      [] filterClass = "PathFilter" -> PathFilterSyntax
      [] filterClass = "QueryFilter" -> QueryFilterSyntax
      [] filterClass = "StatusFilter" -> StatusFilterSyntax
      [] filterClass = "CompletedFilter" -> CompletedFilterSyntax
      [] filterClass = "PendingFilter" -> PendingFilterSyntax
      [] filterClass = "AbortedFilter" -> AbortedFilterSyntax
      [] filterClass = "ErrorFilter" -> ErrorFilterSyntax
      [] filterClass = "PortFilter" -> PortFilterSyntax
      [] filterClass = "ProtocolFilter" -> ProtocolFilterSyntax
      [] filterClass = "HttpVersionFilter" -> HttpVersionFilterSyntax

(***************************************************************************)
(* parseFilter and tryParseFilter.  A run ends                             *)
(* [status |-> "returned", parts |-> list] or [status |-> "thrown"].       *)
(***************************************************************************)
NotCalled == [status |-> "none", parts |-> << >>]

Thrown == [status |-> "thrown", parts |-> << >>]

RECURSIVE ParseFilterLoop(_, _, _, _, _)
RECURSIVE ParseFilterStep(_, _, _, _, _, _, _)
\* for (let part of filterClass.filterSyntax) {
\*     parts.push(part.parse(value, index));
\*     index += part.match(value, index)!.consumed; }
ParseFilterLoop(syntax, value, k, index, parts) ==
    IF k > Len(syntax) THEN [status |-> "returned", parts |-> parts]
    ELSE ParseFilterStep(syntax, value, k, index, parts,
                         Parse(syntax[k], value, index), Match(syntax[k], value, index))

\* ParseFilterStep, had the cursor not been advanced
ParseFilterStep_CursorKept(syntax, value, k, index, parts, parsed, match) ==
    IF parsed.threw THEN Thrown
    ELSE ParseFilterLoop(syntax, value, k + 1, index, Append(parts, parsed.value))

\* One turn of the loop, given what part.parse and part.match give at index
ParseFilterStep(syntax, value, k, index, parts, parsed, match) ==
    IF parsed.threw THEN Thrown
    ELSE ParseFilterLoop(syntax, value, k + 1, index + match.consumed,
                         Append(parts, parsed.value))

parseFilter(filterClass, value) ==
    ParseFilterLoop(filterSyntax(filterClass), value, 1, 0, << >>)

RECURSIVE TryParseFilterLoop(_, _, _, _, _)
RECURSIVE TryParseFilterStep(_, _, _, _, _, _, _)
\* for (let part of filterClass.filterSyntax) {
\*     const match = part.match(value, index);
\*     if (!match || match.type !== 'full') break;
\*     parts.push(part.parse(value, index));
\*     index += match.consumed; }
TryParseFilterLoop(syntax, value, k, index, parts) ==
    IF k > Len(syntax) THEN [status |-> "returned", parts |-> parts]
    ELSE TryParseFilterStep(syntax, value, k, index, parts,
                            Match(syntax[k], value, index), Parse(syntax[k], value, index))

\* TryParseFilterStep, had the loop stopped on an absent match only
TryParseFilterStep_StopOnAbsentOnly(syntax, value, k, index, parts, match, parsed) ==
    IF match = Undefined
    THEN [status |-> "returned", parts |-> parts]
    ELSE IF parsed.threw THEN Thrown
    ELSE TryParseFilterLoop(syntax, value, k + 1, index + match.consumed,
                            Append(parts, parsed.value))

\* TryParseFilterStep, had the cursor not been advanced
TryParseFilterStep_CursorKept(syntax, value, k, index, parts, match, parsed) ==
    IF match = Undefined \/ match.type # "full"
    THEN [status |-> "returned", parts |-> parts]
    ELSE IF parsed.threw THEN Thrown
    ELSE TryParseFilterLoop(syntax, value, k + 1, index, Append(parts, parsed.value))

\* One turn of the loop, given what part.match gives at index, and what
\* part.parse gives there if it is reached
TryParseFilterStep(syntax, value, k, index, parts, match, parsed) ==
    IF match = Undefined \/ match.type # "full"
    THEN [status |-> "returned", parts |-> parts]
    ELSE IF parsed.threw THEN Thrown
    ELSE TryParseFilterLoop(syntax, value, k + 1, index + match.consumed,
                            Append(parts, parsed.value))

tryParseFilter(filterClass, value) ==
    TryParseFilterLoop(filterSyntax(filterClass), value, 1, 0, << >>)

(***************************************************************************)
(* The calls the two loops make on the syntax parts, in the order they     *)
(* make them: [by |-> the function, log |-> the calls], a call being       *)
(* [op, part, index, match, threw].                                        *)
(***************************************************************************)
NoCalls == [by |-> "none", log |-> << >>]

\* part.match(value, index), which returned match
MatchCall(k, index, match) ==
    [op |-> "match", part |-> k, index |-> index, match |-> match, threw |-> FALSE]

\* part.parse(value, index), which returned or threw
ParseCall(k, index, parsed) ==
    [op |-> "parse", part |-> k, index |-> index, match |-> Undefined,
     threw |-> parsed.threw]

RECURSIVE ParseFilterCallsLoop(_, _, _, _, _)
RECURSIVE ParseFilterCallsStep(_, _, _, _, _, _, _)
\* parts.push(part.parse(value, index));
\* index += part.match(value, index)!.consumed;
ParseFilterCallsLoop(syntax, value, k, index, log) ==
    IF k > Len(syntax) THEN log
    ELSE ParseFilterCallsStep(syntax, value, k, index, log,
                              Parse(syntax[k], value, index), Match(syntax[k], value, index))

ParseFilterCallsStep(syntax, value, k, index, log, parsed, match) ==
    IF parsed.threw THEN Append(log, ParseCall(k, index, parsed))
    ELSE ParseFilterCallsLoop(syntax, value, k + 1, index + match.consumed,
             log \o << ParseCall(k, index, parsed), MatchCall(k, index, match) >>)

ParseFilterCalls(filterClass, value) ==
    [by |-> "parseFilter",
     log |-> ParseFilterCallsLoop(filterSyntax(filterClass), value, 1, 0, << >>)]

RECURSIVE TryParseFilterCallsLoop(_, _, _, _, _)
RECURSIVE TryParseFilterCallsStep(_, _, _, _, _, _, _)
\* const match = part.match(value, index);
\* if (!match || match.type !== 'full') break;
\* parts.push(part.parse(value, index));
TryParseFilterCallsLoop(syntax, value, k, index, log) ==
    IF k > Len(syntax) THEN log
    ELSE TryParseFilterCallsStep(syntax, value, k, index, log,
                                 Match(syntax[k], value, index), Parse(syntax[k], value, index))

\* TryParseFilterCallsStep, had the loop stopped on an absent match only
TryParseFilterCallsStep_StopOnAbsentOnly(syntax, value, k, index, log, match, parsed) ==
    IF match = Undefined
    THEN Append(log, MatchCall(k, index, match))
    ELSE IF parsed.threw
    THEN log \o << MatchCall(k, index, match), ParseCall(k, index, parsed) >>
    ELSE TryParseFilterCallsLoop(syntax, value, k + 1, index + match.consumed,
             log \o << MatchCall(k, index, match), ParseCall(k, index, parsed) >>)

TryParseFilterCallsStep(syntax, value, k, index, log, match, parsed) ==
    IF match = Undefined \/ match.type # "full"
    THEN Append(log, MatchCall(k, index, match))
    ELSE IF parsed.threw
    THEN log \o << MatchCall(k, index, match), ParseCall(k, index, parsed) >>
    ELSE TryParseFilterCallsLoop(syntax, value, k + 1, index + match.consumed,
             log \o << MatchCall(k, index, match), ParseCall(k, index, parsed) >>)

TryParseFilterCalls(filterClass, value) ==
    [by |-> "tryParseFilter",
     log |-> TryParseFilterCallsLoop(filterSyntax(filterClass), value, 1, 0, << >>)]

(***************************************************************************)
(* The constructors: new FilterClass(input).                               *)
(* [status |-> "constructed", filterString |-> input, fields |-> list]     *)
(* or [status |-> "thrown"].                                               *)
(***************************************************************************)
NotConstructed == [status |-> "none", filterString |-> << >>, fields |-> << >>]

ConstructorThrew == [status |-> "thrown", filterString |-> << >>, fields |-> << >>]

Constructed(filter, fields) ==
    [status |-> "constructed", filterString |-> filter, fields |-> fields]

\* The classes whose constructor calls parseFilter(Class, filter); the
\* others (CompletedFilter, PendingFilter, AbortedFilter, ErrorFilter)
\* declare no constructor and inherit Filter's, which only stores the string.
ParsingConstructors ==
    {"StatusFilter", "MethodFilter", "HttpVersionFilter", "ProtocolFilter",
     "HostnameFilter", "PortFilter", "PathFilter", "QueryFilter"}

\* The rest of a constructor once parseFilter has returned p or thrown
ConstructFrom(filterClass, filter, parsed, p) ==
    IF parsed.status = "thrown" THEN ConstructorThrew
    ELSE CASE filterClass = "MethodFilter" ->
                 Constructed(filter, << UpperStr(p[3]) >>)
           [] filterClass = "HttpVersionFilter" ->
                 Constructed(filter, << ParseInt(p[3]) >>)
           [] filterClass = "ProtocolFilter" ->
                 Constructed(filter, << LowerStr(p[3]) >>)
           [] filterClass = "HostnameFilter" ->
                 Constructed(filter, << p[2], LowerStr(p[3]) >>)
           [] OTHER -> \* StatusFilter, PortFilter, PathFilter, QueryFilter
                 Constructed(filter, << p[2], p[3] >>)

ParsingConstruct(filterClass, filter, parsed) ==
    ConstructFrom(filterClass, filter, parsed, parsed.parts)

Construct(filterClass, filter) ==
    IF filterClass \notin ParsingConstructors
    THEN Constructed(filter, << >>)
    ELSE ParsingConstruct(filterClass, filter, parseFilter(filterClass, filter))

\* The calls a constructor makes: those of parseFilter, if it calls it
ConstructCalls(filterClass, filter) ==
    IF filterClass \notin ParsingConstructors
    THEN NoCalls
    ELSE ParseFilterCalls(filterClass, filter)

(***************************************************************************)
(* The inputs: the text in the filter field, built up by accepting the     *)
(* suggestion for the next fragment, deleting characters and typing.       *)
(***************************************************************************)
\* The characters typed one by one: "4", "x", "=", and a character outside
\* every allowed range (U+20AC)
Alphabet == {52, 120, 61, 8364}

\* What suggestion generators may return for the context (events) at hand:
\* "", "404", "GET"
CandidatePool == << << >>, << 52, 48, 52 >>, << 71, 69, 84 >> >>

\* The contexts: none given, or one for which the generator returns the
\* candidates of the pool at the positions in `keep`, in pool order
NoContext == [given |-> FALSE, candidates |-> << >>]

Contexts ==
    {NoContext} \cup
    {[given |-> TRUE, candidates |-> FilterSeq(CandidatePool, keep, 1)] :
        keep \in SUBSET (1..Len(CandidatePool))}

\* A part without a suggestionGenerator never looks at its context
ContextsFor(part) ==
    IF part.kind \in {"String", "FixedLengthNumber"} /\ part.hasGenerator
    THEN Contexts
    ELSE {NoContext}

\* The texts a user enters for a fragment as a whole: the keyword or an
\* option as configured or in capitals, an operand as offered
FragmentTexts(part) ==
    CASE part.kind = "FixedString" -> {part.matcher, UpperStr(part.matcher)}
      [] part.kind = "StringOptions" ->
            UNION {{part.optionMatchers[k].matcher, UpperStr(part.optionMatchers[k].matcher)} :
                      k \in 1..Len(part.optionMatchers)}
      [] part.kind = "String" -> {CandidatePool[3]}
      [] part.kind = "FixedLengthNumber" -> {CandidatePool[2]}
      [] part.kind = "Number" -> {CandidatePool[2]}

NoCall == [op |-> "none", part |-> 0, index |-> 0, match |-> Undefined,
           parsed |-> Threw, context |-> NoContext, suggestions |-> << >>]

VARIABLES
    filterClass,   \* the filter class the text is entered for
    value,         \* the input string
    accepted,      \* how many fragments were entered as a whole
    cut,           \* how many characters were deleted
    typed,         \* how many characters were typed one by one
    strict,        \* the outcome of parseFilter(filterClass, value)
    prefix,        \* the outcome of tryParseFilter(filterClass, value)
    instance,      \* the outcome of new filterClass(value)
    call,          \* the last call of a syntax part's method and its outcome
    calls          \* the calls the last parseFilter or tryParseFilter made

vars == << filterClass, value, accepted, cut, typed, strict, prefix, instance, call,
          calls >>

Init ==
    /\ filterClass \in {SelectableSearchFilterClasses[k] :
                           k \in 1..Len(SelectableSearchFilterClasses)}
    /\ value = << >>
    /\ accepted = 0
    /\ cut = 0
    /\ typed = 0
    /\ strict = NotCalled
    /\ prefix = NotCalled
    /\ instance = NotConstructed
    /\ call = NoCall
    /\ calls = NoCalls

\* Nothing has been computed for the current input, or the outcomes were
\* dropped
Idle ==
    /\ strict = NotCalled
    /\ prefix = NotCalled
    /\ instance = NotConstructed
    /\ call = NoCall
    /\ calls = NoCalls

\* A new input string: nothing has been computed for it yet
Edited(v) ==
    /\ Idle
    /\ value' = v
    /\ strict' = NotCalled
    /\ prefix' = NotCalled
    /\ instance' = NotConstructed
    /\ call' = NoCall
    /\ calls' = NoCalls
    /\ UNCHANGED filterClass

AcceptSuggestion ==
    /\ cut = 0
    /\ typed = 0
    /\ accepted < Len(filterSyntax(filterClass))
    /\ \E t \in FragmentTexts(filterSyntax(filterClass)[accepted + 1]) :
          Edited(value \o t)
    /\ accepted' = accepted + 1
    /\ UNCHANGED << cut, typed >>

Backspace ==
    /\ typed = 0
    /\ cut < MaxCut
    /\ Len(value) > 0
    /\ Edited(SubSeq(value, 1, Len(value) - 1))
    /\ cut' = cut + 1
    /\ UNCHANGED << accepted, typed >>

TypeChar ==
    /\ typed < MaxTyped
    /\ \E c \in Alphabet : Edited(Append(value, c))
    /\ typed' = typed + 1
    /\ UNCHANGED << accepted, cut >>

(***************************************************************************)
(* The operations on the current input.                                    *)
(***************************************************************************)
CallParseFilter ==
    /\ strict = NotCalled
    /\ instance = NotConstructed
    /\ call = NoCall
    /\ strict' = parseFilter(filterClass, value)
    /\ instance' = NotConstructed
    /\ call' = NoCall
    /\ calls' = ParseFilterCalls(filterClass, value)
    /\ UNCHANGED << filterClass, value, accepted, cut, typed, prefix >>

CallTryParseFilter ==
    /\ prefix = NotCalled
    /\ instance = NotConstructed
    /\ call = NoCall
    /\ prefix' = tryParseFilter(filterClass, value)
    /\ instance' = NotConstructed
    /\ call' = NoCall
    /\ calls' = TryParseFilterCalls(filterClass, value)
    /\ UNCHANGED << filterClass, value, accepted, cut, typed, strict >>

NewFilter ==
    /\ Idle
    /\ instance' = Construct(filterClass, value)
    /\ strict' = NotCalled
    /\ prefix' = NotCalled
    /\ call' = NoCall
    /\ calls' = ConstructCalls(filterClass, value)
    /\ UNCHANGED << filterClass, value, accepted, cut, typed >>

PartCalled(c) ==
    /\ call' = c
    /\ strict' = NotCalled
    /\ prefix' = NotCalled
    /\ instance' = NotConstructed
    /\ calls' = NoCalls
    /\ UNCHANGED << filterClass, value, accepted, cut, typed >>

CallMatch ==
    /\ Idle
    /\ \E k \in 1..Len(filterSyntax(filterClass)), index \in 0..Len(value) :
        PartCalled([NoCall EXCEPT !.op = "match", !.part = k, !.index = index,
                        !.match = Match(filterSyntax(filterClass)[k], value, index)])

CallParse ==
    /\ Idle
    /\ \E k \in 1..Len(filterSyntax(filterClass)), index \in 0..Len(value) :
        PartCalled([NoCall EXCEPT !.op = "parse", !.part = k, !.index = index,
                        !.parsed = Parse(filterSyntax(filterClass)[k], value, index)])

\* "Don't call it without a match, as the behaviour is undefined."
CallGetSuggestions ==
    /\ Idle
    /\ \E k \in 1..Len(filterSyntax(filterClass)), index \in 0..Len(value) :
        /\ Match(filterSyntax(filterClass)[k], value, index) # Undefined
        /\ \E context \in ContextsFor(filterSyntax(filterClass)[k]) :
              PartCalled([NoCall EXCEPT
                  !.op = "getSuggestions", !.part = k, !.index = index,
                  !.context = context,
                  !.match = Match(filterSyntax(filterClass)[k], value, index),
                  !.suggestions =
                      GetSuggestions(filterSyntax(filterClass)[k], value, index, context)])

\* The outcomes are dropped; the input stays
Discard ==
    /\ ~Idle
    /\ strict' = NotCalled
    /\ prefix' = NotCalled
    /\ instance' = NotConstructed
    /\ call' = NoCall
    /\ calls' = NoCalls
    /\ UNCHANGED << filterClass, value, accepted, cut, typed >>

Next ==
    \/ AcceptSuggestion
    \/ Backspace
    \/ TypeChar
    \/ CallParseFilter
    \/ CallTryParseFilter
    \/ NewFilter
    \/ CallMatch
    \/ CallParse
    \/ CallGetSuggestions
    \/ Discard

Spec == Init /\ [][Next]_vars

(***************************************************************************)
(* Vocabulary of the properties.                                           *)
(***************************************************************************)
Min(a, b) == IF a < b THEN a ELSE b

TheSyntax == filterSyntax(filterClass)

\* The fragment a recorded call was made on
CalledPart == TheSyntax[call.part]

IsFull(m) == m # Undefined /\ m.type = "full"

RECURSIVE CursorAt(_, _, _)
\* The cursor at which fragment k is met: the sum of the consumed counts of
\* the fragments before it, each matched at its own cursor
CursorAt(syntax, v, k) ==
    IF k = 1 THEN 0
    ELSE CursorAt(syntax, v, k - 1)
         + Match(syntax[k - 1], v, CursorAt(syntax, v, k - 1)).consumed

\* Fragment k matches fully at its cursor
FullAtCursor(syntax, v, k) == IsFull(Match(syntax[k], v, CursorAt(syntax, v, k)))

AllFull(syntax, v) == \A k \in 1..Len(syntax) : FullAtCursor(syntax, v, k)

\* The length of the maximal leading run of fragments that match fully
LeadingFull(syntax, v) ==
    CHOOSE r \in 0..Len(syntax) :
        /\ \A k \in 1..r : FullAtCursor(syntax, v, k)
        /\ r < Len(syntax) => ~FullAtCursor(syntax, v, r + 1)

\* The value fragment k parses at its cursor
ValueAtCursor(syntax, v, k) == Parse(syntax[k], v, CursorAt(syntax, v, k)).value

\* The length of the maximal run of digits of v from index
DigitRun(v, index) ==
    CHOOSE n \in 0..(Len(v) - index) :
        /\ \A j \in 1..n : v[index + j] >= 48 /\ v[index + j] <= 57
        /\ index + n < Len(v) => ~(v[index + n + 1] >= 48 /\ v[index + n + 1] <= 57)

\* The texts that typing may append to an input
Appended == UNION {[1..n -> Alphabet] : n \in 1..MaxAppend}

(***************************************************************************)
(* C1.  Strict full parse succeeds only if the fragment sequence consumes  *)
(* the whole input: whenever parseFilter returns values, the final cursor  *)
(* (the sum of the fragments' consumed counts) is the length of the input. *)
(* An input with characters left over makes it fail.                       *)
(***************************************************************************)
C1_StrictParseConsumesWholeInput ==
    strict.status = "returned" =>
        CursorAt(TheSyntax, value, Len(TheSyntax) + 1) = Len(value)

C3_PrefixParseNeverFails ==
    prefix.status # "none" =>
        /\ prefix.status = "returned"
        /\ Len(prefix.parts) = LeadingFull(TheSyntax, value)
        /\ \A k \in 1..Len(prefix.parts) :
              prefix.parts[k] = ValueAtCursor(TheSyntax, value, k)
        /\ ~FullAtCursor(TheSyntax, value, 1) => prefix.parts = << >>

\* tryParseFilter has stopped at a third fragment that hard-rejects, after
\* returning the values of the first two
C3_Witness ==
    /\ prefix.status = "returned"
    /\ Len(prefix.parts) = 2
    /\ Len(TheSyntax) = 3
    /\ Match(TheSyntax[3], value, CursorAt(TheSyntax, value, 3)) = Undefined

(***************************************************************************)
(* C4.  On every input on which strict full parse succeeds, best-effort    *)
(* prefix parse returns a list of the same length with the same value at   *)
(* every position.                                                         *)
(***************************************************************************)
C4_PrefixAgreesWithStrict ==
    (strict.status = "returned" /\ prefix.status # "none") =>
        /\ prefix.status = "returned"
        /\ Len(prefix.parts) = Len(strict.parts)
        /\ \A k \in 1..Len(strict.parts) : prefix.parts[k] = strict.parts[k]

\* Both parses have run on an input that strict parse accepts with a number
\* as its third value
C4_Witness ==
    /\ strict.status = "returned"
    /\ prefix.status = "returned"
    /\ Len(strict.parts) = 3
    /\ TheSyntax[3].kind = "FixedLengthNumber"

(***************************************************************************)
(* C5.  Constructing a filter from an input fails whenever the input does  *)
(* not fully match every fragment of the filter's syntax in order, for     *)
(* every class of SelectableSearchFilterClasses: a filter is constructed   *)
(* only from an input all of whose fragments match fully.                  *)
(***************************************************************************)
C5_ConstructionRequiresFullMatch ==
    instance.status = "constructed" => AllFull(TheSyntax, value)

(***************************************************************************)
(* C6.  For a fixed-keyword fragment with keyword k, an input s and an     *)
(* index i <= len(s): a match consumes min(len(s) - i, len(k)) characters; *)
(* it is full iff s[i : i + len(k)] equals k ignoring case; it is absent   *)
(* iff some compared character (position j < min(len(k), len(s) - i))      *)
(* differs ignoring case; and it is partial otherwise.                     *)
(***************************************************************************)
C6_FixedKeywordMatch ==
    (call.op = "match" /\ CalledPart.kind = "FixedString") =>
        LET k == CalledPart.matcher
            i == call.index
            compared == Min(Len(k), Len(value) - i)
            differs == \E j \in 1..compared :
                          ToLowerCase(value[i + j]) # ToLowerCase(k[j])
            equal == /\ i + Len(k) <= Len(value)
                     /\ \A j \in 1..Len(k) : ToLowerCase(value[i + j]) = ToLowerCase(k[j])
        IN  /\ call.match # Undefined => call.match.consumed = compared
            /\ call.match.type = "full" <=> equal
            /\ call.match = Undefined <=> differs
            /\ call.match.type = "partial" <=> (~equal /\ ~differs)

\* A keyword was matched against an input that ends in the middle of it
C6_Witness ==
    /\ call.op = "match"
    /\ CalledPart.kind = "FixedString"
    /\ call.match.type = "partial"
    /\ call.match.consumed > 2

(***************************************************************************)
(* C7.  For a fixed-digit-count fragment requiring N digits, with k the    *)
(* length of the maximal digit run at the index: match is full exactly     *)
(* when k = N, absent when k > N, and partial (for k < N) only when the    *)
(* digit run ends at the end of the input.                                 *)
(***************************************************************************)
C7_FixedDigitCountMatch ==
    (call.op = "match" /\ CalledPart.kind = "FixedLengthNumber") =>
        LET k == DigitRun(value, call.index)
            N == CalledPart.requiredLength
        IN  /\ call.match.type = "full" <=> k = N
            /\ k > N => call.match = Undefined
            /\ call.match.type = "partial" =>
                  (k < N /\ call.index + k = Len(value))

C9_SuggestionsComplete ==
    call.op = "getSuggestions" =>
        \A g \in 1..Len(call.suggestions) :
            ~call.suggestions[g].template =>
                Match(CalledPart,
                      Slice(value, 0, call.index) \o call.suggestions[g].value,
                      call.index)
                    = SyntaxMatch("full", Len(call.suggestions[g].value))

(***************************************************************************)
(* C10.  A hard rejection is permanent under typing: if match(value,       *)
(* index) is absent, then match(value + t, index) is absent for every text *)
(* t appended to the input.                                                *)
(***************************************************************************)
C10_RejectionIsPermanent ==
    (call.op = "match" /\ call.match = Undefined) =>
        \A t \in Appended : Match(CalledPart, value \o t, call.index) = Undefined

\* A fixed-digit-count fragment has rejected a run of too many digits
C10_Witness ==
    /\ call.op = "match"
    /\ call.match = Undefined
    /\ CalledPart.kind = "FixedLengthNumber"
    /\ DigitRun(value, call.index) > CalledPart.requiredLength

(***************************************************************************)
(* C11.  At the exact end of the input (index = len(value)) the match of   *)
(* every syntax part is a partial match that consumed nothing: it is       *)
(* neither absent nor full, whatever the kind and configuration of the     *)
(* fragment.                                                               *)
(***************************************************************************)
C11_EndOfInputIsPartial ==
    (call.op = "match" /\ call.index = Len(value)) =>
        call.match = SyntaxMatch("partial", 0)

\* "method", "=", "GE" and the input "method=GE"
MethodText == << 109, 101, 116, 104, 111, 100 >>

EqualsText == << 61 >>

GEText == << 71, 69 >>

MethodEqualsGE == MethodText \o EqualsText \o GEText

(***************************************************************************)
(* C12.  For the method filter (keyword "method", keyword "=", string of   *)
(* letters), best-effort prefix parse of "method=GE" returns the three     *)
(* values ["method", "=", "GE"], and the match of the string fragment at   *)
(* index 7 is full and consumed the two letters.                           *)
(***************************************************************************)
C12_MethodGEParsesInFull ==
    (filterClass = "MethodFilter" /\ value = MethodEqualsGE) =>
        /\ prefix.status # "none" =>
              prefix = [status |-> "returned",
                        parts |-> << MethodText, EqualsText, GEText >>]
        /\ (call.op = "match" /\ call.part = 3 /\ call.index = 7) =>
              call.match = SyntaxMatch("full", 2)

\* tryParseFilter has run on "method=GE" for the method filter
C12_Witness ==
    /\ filterClass = "MethodFilter"
    /\ value = MethodEqualsGE
    /\ prefix.status = "returned"

\* As first stated: the two values ["method", "="], and a partial match of
\* the string fragment at index 7
C12_MethodGEStopsAtString ==
    (filterClass = "MethodFilter" /\ value = MethodEqualsGE) =>
        /\ prefix.status # "none" =>
              prefix = [status |-> "returned", parts |-> << MethodText, EqualsText >>]
        /\ (call.op = "match" /\ call.part = 3 /\ call.index = 7) =>
              (call.match # Undefined /\ call.match.type = "partial")

\* Every fragment that tryParseFilter matched fully, at the cursor logged for
\* it, matches on s at that cursor and consumes as much there
SameFragments(syntax, log, s) ==
    \A j \in 1..Len(log) :
        (log[j].op = "match" /\ IsFull(log[j].match)) =>
            /\ Match(syntax[log[j].part], s, log[j].index) # Undefined
            /\ Match(syntax[log[j].part], s, log[j].index).consumed
                  = log[j].match.consumed

\* The list short is a prefix of the list long, position by position
IsPrefixOf(short, long) ==
    /\ Len(short) <= Len(long)
    /\ \A k \in 1..Len(short) : short[k] = long[k]

\* The proper prefixes of the input v
ProperPrefixes(v) == {SubSeq(v, 1, n) : n \in 0..(Len(v) - 1)}

(***************************************************************************)
(* C13.  Prefix law of best-effort prefix parse: for every filter class,   *)
(* every input s and every prefix p of s, if each fragment that matched    *)
(* fully on p matches on s at the same cursor and consumes as much, then   *)
(* the values returned for p are, position by position, the first values   *)
(* returned for s.                                                         *)
(***************************************************************************)
C13_PrefixLaw ==
    prefix.status = "returned" =>
        \A p \in ProperPrefixes(value) :
            SameFragments(TheSyntax, TryParseFilterCalls(filterClass, p).log, value) =>
                LET shorter == tryParseFilter(filterClass, p)
                IN  /\ shorter.status = "returned"
                    /\ IsPrefixOf(shorter.parts, prefix.parts)

\* tryParseFilter has returned three values for an input of which a prefix,
\* whose two full fragments are the same in the input, gives the first two
C13_Witness ==
    /\ prefix.status = "returned"
    /\ Len(prefix.parts) = 3
    /\ \E p \in ProperPrefixes(value) :
          /\ SameFragments(TheSyntax, TryParseFilterCalls(filterClass, p).log, value)
          /\ Len(tryParseFilter(filterClass, p).parts) = 2

\* The text of v at [index, index + len(keyword)) is the keyword, ignoring case
KeywordAt(keyword, v, index) ==
    /\ index + Len(keyword) <= Len(v)
    /\ \A j \in 1..Len(keyword) : ToLowerCase(v[index + j]) = ToLowerCase(keyword[j])

(***************************************************************************)
(* C14.  For every fixed-keyword fragment: whenever match(value, index) is *)
(* full (the keyword stands at index, in any case), parse(value, index)    *)
(* returns the keyword exactly as configured, whatever the case of the     *)
(* characters typed; when match is not full, parse throws.                 *)
(***************************************************************************)
C14_KeywordParsedAsConfigured ==
    (call.op = "parse" /\ CalledPart.kind = "FixedString") =>
        /\ IsFull(Match(CalledPart, value, call.index))
              <=> KeywordAt(CalledPart.matcher, value, call.index)
        /\ call.parsed = IF KeywordAt(CalledPart.matcher, value, call.index)
                         THEN Returned(CalledPart.matcher)
                         ELSE Threw

\* A keyword typed in another case than configured was parsed
C14_Witness ==
    /\ call.op = "parse"
    /\ CalledPart.kind = "FixedString"
    /\ ~call.parsed.threw
    /\ Slice(value, call.index, call.index + Len(CalledPart.matcher)) # CalledPart.matcher

\* Call j of the log is a parse that did not throw and that follows a match
\* of the same fragment at the same index which was full
ParseAfterFullMatch(log, j) ==
    /\ ~log[j].threw
    /\ \E i \in 1..(j - 1) :
          /\ log[i].op = "match"
          /\ log[i].part = log[j].part
          /\ log[i].index = log[j].index
          /\ IsFull(log[i].match)

\* Call j of the log is a parse made before any match of that fragment: it
\* throws exactly when the fragment does not match fully there, which ends
\* the loop; otherwise the match at the same position is the next call
ParseBeforeMatch(log, v, j) ==
    /\ \A i \in 1..(j - 1) : log[i].part # log[j].part
    /\ log[j].threw <=> ~IsFull(Match(TheSyntax[log[j].part], v, log[j].index))
    /\ log[j].threw => j = Len(log)
    /\ ~log[j].threw =>
          /\ j < Len(log)
          /\ log[j + 1] = MatchCall(log[j].part, log[j].index,
                                     Match(TheSyntax[log[j].part], v, log[j].index))

KeywordBegunAt(keyword, v, index) ==
    /\ index + Len(keyword) > Len(v)
    /\ \A j \in 1..(Len(v) - index) : ToLowerCase(v[index + j]) = ToLowerCase(keyword[j])

\* The greatest number of a non-empty finite set of numbers
Greatest(S) == CHOOSE n \in S : \A m \in S : m <= n

\* The options of an enumerated-option fragment, as configured
OptionsOf(part) == {part.optionMatchers[k].matcher : k \in 1..Len(part.optionMatchers)}

(***************************************************************************)
(* C16.  For every enumerated-option fragment, input and index: match is   *)
(* absent iff the keyword match of every option is absent; if at least one *)
(* option matches fully, the result is full and consumed the most that a   *)
(* fully matching option consumed, partial options being ignored; if none  *)
(* matches fully but some partially, the result is partial and consumed    *)
(* the most that a partial option consumed.                                *)
(***************************************************************************)
C16_OptionsMatch ==
    (call.op = "match" /\ CalledPart.kind = "StringOptions") =>
        LET i == call.index
            full == {o \in OptionsOf(CalledPart) : KeywordAt(o, value, i)}
            partial == {o \in OptionsOf(CalledPart) : KeywordBegunAt(o, value, i)}
        IN  /\ call.match = Undefined <=> (full = {} /\ partial = {})
            /\ full # {} =>
                  call.match = SyntaxMatch("full", Greatest({Len(o) : o \in full}))
            /\ (full = {} /\ partial # {}) =>
                  call.match = SyntaxMatch("partial", Len(value) - i)

\* An option matched fully where a longer option, declared before it, was
\* only begun
C16_Witness ==
    /\ call.op = "match"
    /\ CalledPart.kind = "StringOptions"
    /\ call.match # Undefined
    /\ call.match.type = "full"
    /\ \E o \in OptionsOf(CalledPart) : KeywordBegunAt(o, value, call.index)

\* The option reaches exactly to the end of the input from index, in full
LiveFull(o, v, index) == KeywordAt(o, v, index) /\ index + Len(o) = Len(v)

\* The positions, in declaration order, of the options to suggest: the live
\* full ones if there is any, else the live partial ones
SuggestedOptions(part, v, index) ==
    LET opts == part.optionMatchers
        fulls == {k \in 1..Len(opts) : LiveFull(opts[k].matcher, v, index)}
        partials == {k \in 1..Len(opts) : KeywordBegunAt(opts[k].matcher, v, index)}
    IN  IF fulls # {} THEN fulls ELSE partials

(***************************************************************************)
(* C17.  For every enumerated-option fragment, getSuggestions(value,       *)
(* index) returns, in declaration order, one suggestion per live option    *)
(* (its keyword match is not absent and reaches the end of the input):     *)
(* only the fully matching live options if there is one (after ">" the     *)
(* longer ">=" is not suggested), else all live partial options.  Options  *)
(* that diverged or end before the end of the input are not suggested.     *)
(***************************************************************************)
C17_OptionSuggestions ==
    (call.op = "getSuggestions" /\ CalledPart.kind = "StringOptions") =>
        LET opts == CalledPart.optionMatchers
            kept == FilterSeq(opts, SuggestedOptions(CalledPart, value, call.index), 1)
        IN  /\ Len(call.suggestions) = Len(kept)
            /\ \A g \in 1..Len(kept) :
                  call.suggestions[g] = Suggestion(kept[g].matcher, kept[g].matcher)

\* One option was suggested although a longer option is live too
C17_Witness ==
    /\ call.op = "getSuggestions"
    /\ CalledPart.kind = "StringOptions"
    /\ Len(call.suggestions) = 1
    /\ \E o \in OptionsOf(CalledPart) :
          /\ KeywordBegunAt(o, value, call.index)
          /\ Len(o) > Len(call.suggestions[1].value)

\* The candidates the generator supplies for the context of the call that
\* have length N, are all digits and start with the digits typed
QualifyingCandidates(part, context, digits) ==
    IF ~(context.given /\ part.hasGenerator) THEN << >>
    ELSE FilterSeq(context.candidates,
             {c \in 1..Len(context.candidates) :
                 /\ Len(context.candidates[c]) = part.requiredLength
                 /\ \A j \in 1..Len(context.candidates[c]) :
                       context.candidates[c][j] >= 48 /\ context.candidates[c][j] <= 57
                 /\ Len(digits) <= Len(context.candidates[c])
                 /\ \A j \in 1..Len(digits) : context.candidates[c][j] = digits[j]}, 1)

\* The digits right-padded with "0" to length n
ZeroPadded(digits, n) == digits \o [j \in 1..(n - Len(digits)) |-> 48]

(***************************************************************************)
(* C18.  For a fixed-digit-count fragment requiring N digits, with k       *)
(* digits typed from the index to the end of the input: if k = 0 the first *)
(* suggestion is a template with an empty value; if 0 < k < N and the      *)
(* generator supplies no candidate of length N, all digits, starting with  *)
(* the typed digits (or no generator or context is given), the only        *)
(* suggestion is the typed digits right-padded with "0" to length N; if    *)
(* there are such candidates, the suggestions are exactly those, and no    *)
(* zero-padded one is added.                                               *)
(***************************************************************************)
C18_FixedDigitSuggestions ==
    (/\ call.op = "getSuggestions"
     /\ CalledPart.kind = "FixedLengthNumber"
     /\ call.index + DigitRun(value, call.index) = Len(value)) =>
        LET N == CalledPart.requiredLength
            digits == Slice(value, call.index, Len(value))
            k == Len(digits)
            candidates == QualifyingCandidates(CalledPart, call.context, digits)
        IN  /\ k = 0 =>
                  /\ Len(call.suggestions) >= 1
                  /\ call.suggestions[1].template
                  /\ call.suggestions[1].value = << >>
            /\ (0 < k /\ k < N /\ candidates = << >>) =>
                  /\ Len(call.suggestions) = 1
                  /\ ~call.suggestions[1].template
                  /\ call.suggestions[1].value = ZeroPadded(digits, N)
            /\ (0 < k /\ k < N /\ candidates # << >>) =>
                  /\ Len(call.suggestions) = Len(candidates)
                  /\ \A g \in 1..Len(candidates) :
                        /\ ~call.suggestions[g].template
                        /\ call.suggestions[g].value = candidates[g]

\* Two typed digits were extended with a "0", the generator having supplied
\* candidates none of which qualifies
C18_Witness ==
    /\ call.op = "getSuggestions"
    /\ CalledPart.kind = "FixedLengthNumber"
    /\ DigitRun(value, call.index) = 2
    /\ call.index + 2 = Len(value)
    /\ call.context.given
    /\ call.context.candidates # << >>
    /\ Len(call.suggestions) = 1
    /\ call.suggestions[1].value = ZeroPadded(Slice(value, call.index, Len(value)), 3)

\* A match made at index on v stays within v
WithinInput(m, v, index) ==
    m # Undefined => (0 <= m.consumed /\ index + m.consumed <= Len(v))

(***************************************************************************)
(* C19.  Cursor bound: for every fragment and every index with             *)
(* 0 <= index <= len(value), a match that is not absent has consumed >= 0  *)
(* and index + consumed <= len(value).  Hence, in strict full parse and in *)
(* best-effort prefix parse, the cursor starts at 0, never decreases from  *)
(* one call to the next, and never exceeds the length of the input, also   *)
(* after the last step.                                                    *)
(***************************************************************************)
C19_CursorBound ==
    /\ call.op = "match" => WithinInput(call.match, value, call.index)
    /\ \A j \in 1..Len(calls.log) :
          /\ 0 <= calls.log[j].index
          /\ calls.log[j].index <= Len(value)
          /\ j = 1 => calls.log[j].index = 0
          /\ j > 1 => calls.log[j - 1].index <= calls.log[j].index
          /\ calls.log[j].op = "match" =>
                WithinInput(calls.log[j].match, value, calls.log[j].index)

\* Strict full parse has moved its cursor over three fragments, to the end
\* of the input
C19_Witness ==
    /\ calls.by = "parseFilter"
    /\ Len(calls.log) = 6
    /\ calls.log[3].index > 0
    /\ calls.log[5].index > calls.log[3].index
    /\ calls.log[6].index + calls.log[6].match.consumed = Len(value)

(***************************************************************************)
(* C20.  For every enumerated-option fragment, whenever match(value,       *)
(* index) is full, parse(value, index) returns exactly one of the          *)
(* configured option strings, in the configured case, whatever the case of *)
(* the characters typed.                                                   *)
(***************************************************************************)
C20_OptionParsedAsConfigured ==
    (/\ call.op = "parse"
     /\ CalledPart.kind = "StringOptions"
     /\ IsFull(Match(CalledPart, value, call.index))) =>
        /\ ~call.parsed.threw
        /\ call.parsed.value \in OptionsOf(CalledPart)

====
